---- MODULE Spec2Model ----
(***************************************************************************)
(* JellyLink media organizer (src/jellylink.py): the polling main loop,    *)
(* the filename classification cascade and the quality-aware placement.    *)
(*                                                                         *)
(* A file name is a sequence of tokens (the parts of the stem between the  *)
(* separators '.', '_', '-') and an extension.  The regular expressions of *)
(* the source are modelled by what they match on such token sequences.     *)
(***************************************************************************)
EXTENDS Integers, Sequences, FiniteSets, Bags, TLC

(***************************************************************************)
(* Bounds of the model.                                                    *)
(***************************************************************************)
MaxLen == 3          \* longest generated stem, in tokens
MaxRestarts == 1     \* process restarts explored
MaxEvents == 2       \* change events counted per path between two scans
MaxRetries == 2      \* the retry ceiling whose absence is shown
MaxAttempts == MaxRetries + 2    \* the count of attempts is not followed further

(***************************************************************************)
(* Configuration (fallback values of the source) and environment.          *)
(***************************************************************************)
DOWNLOAD_GRACE_PERIOD == 60
SCAN_INTERVAL == 15
CurrentYear == 2026
VIDEO_EXTS == {"mkv", "mp4", "avi", "mov", "m4v"}
TEMP_PARTIAL_SUFFIXES == {"part", "crdownload", "!ut", "!qb", "aria2", "partial"}

(***************************************************************************)
(* Tokens.  k is the kind: "word" (letters, w), "tag" (a resolution tag    *)
(* such as 1080p, n), "se" (S<s>E<e> with two digits each), "x" (<s>x<e>), *)
(* "num" (a run of digits d of length 1, 3 or 4).                          *)
(***************************************************************************)
Word(w) == [k |-> "word", w |-> w, n |-> 0, s |-> 0, e |-> 0, d |-> <<>>]
Tag(n) == [k |-> "tag", w |-> "", n |-> n, s |-> 0, e |-> 0, d |-> <<>>]
SE(s, e) == [k |-> "se", w |-> "", n |-> 0, s |-> s, e |-> e, d |-> <<>>]
NxM(s, e) == [k |-> "x", w |-> "", n |-> 0, s |-> s, e |-> e, d |-> <<>>]
Num(d) == [k |-> "num", w |-> "", n |-> 0, s |-> 0, e |-> 0, d |-> d]

\* str(n) for n >= 0: the decimal digits of n
RECURSIVE Digits(_)
Digits(n) == IF n < 10 THEN <<n>> ELSE Append(Digits(n \div 10), n % 10)

\* int(s) for a digit string s
RECURSIVE ToInt(_)
ToInt(d) == IF d = <<>> THEN 0 ELSE 10 * ToInt(SubSeq(d, 1, Len(d) - 1)) + d[Len(d)]

\* a in b, for strings given as sequences
Contains(b, a) ==
    \E i \in 0..(Len(b) - Len(a)) : SubSeq(b, i + 1, i + Len(a)) = a

\* the first index of s satisfying P, 0 when there is none
FirstIndex(s, P(_)) ==
    IF \E i \in 1..Len(s) : P(s[i])
    THEN CHOOSE i \in 1..Len(s) : P(s[i]) /\ \A j \in 1..(i - 1) : ~P(s[j])
    ELSE 0

\* the first index of s at or after lo satisfying P, 0 when there is none
FirstIndexFrom(s, lo, P(_)) ==
    IF \E i \in lo..Len(s) : P(s[i])
    THEN CHOOSE i \in lo..Len(s) : P(s[i]) /\ \A j \in lo..(i - 1) : ~P(s[j])
    ELSE 0

\* year_pattern: (19\d{2}|20\d{2})
year_pattern(t) ==
    /\ t.k = "num"
    /\ Len(t.d) = 4
    /\ \/ t.d[1] = 1 /\ t.d[2] = 9
       \/ t.d[1] = 2 /\ t.d[2] = 0

\* COMMON_TAGS_RE: the tokens removed before matching
COMMON_TAGS_RE(t) == t.k = "tag"

sanitize_for_matching(toks) == SelectSeq(toks, LAMBDA t : ~COMMON_TAGS_RE(t))

\* clean_title: the separators are already token boundaries
clean_title(toks) == toks

\* normalize_tv_title: a trailing year after whitespace is removed
normalize_tv_title(title) ==
    IF Len(title) >= 2 /\ year_pattern(title[Len(title)])
    THEN SubSeq(title, 1, Len(title) - 1)
    ELSE title

NoTv == [ok |-> FALSE, title |-> <<>>, season |-> 0, episode |-> 0]
NoMovie == [ok |-> FALSE, title |-> <<>>, year |-> 0]

(***************************************************************************)
(* The five patterns of detect_tv.  Each gives the position of its match   *)
(* (0: no match) and the season and episode it captures there.             *)
(*   1: title, at least one space, S<s>E<e>                                *)
(*   2: title, S<s>E<e>                                                    *)
(*   3: title, at least one space, <s>x<e>                                 *)
(*   4: title, a separator, three digits not followed by a digit           *)
(*   5: as 2 followed by a further episode number: on S<s>E<dd> the        *)
(*      episode group backtracks to the first digit                        *)
(***************************************************************************)
PatternPos(p, cb) ==
    CASE p = 1 -> FirstIndexFrom(cb, 2, LAMBDA t : t.k = "se")
      [] p = 2 -> FirstIndex(cb, LAMBDA t : t.k = "se")
      [] p = 3 -> FirstIndexFrom(cb, 2, LAMBDA t : t.k = "x")
      [] p = 4 -> FirstIndexFrom(cb, 2, LAMBDA t : t.k = "num" /\ Len(t.d) = 3)
      [] p = 5 -> FirstIndex(cb, LAMBDA t : t.k = "se")

PatternSeason(p, t) == IF p = 4 THEN t.d[1] ELSE t.s

PatternEpisode(p, t) ==
    CASE p = 4 -> ToInt(SubSeq(t.d, 2, 3))
      [] p = 5 -> t.e \div 10
      [] OTHER -> t.e

RECURSIVE detect_tv_from(_, _)
detect_tv_from(p, cb) ==
    IF p > 5 THEN NoTv
    ELSE LET i == PatternPos(p, cb)
             title == IF i = 0 THEN <<>>
                      ELSE normalize_tv_title(clean_title(SubSeq(cb, 1, i - 1)))
         IN  IF i = 0 \/ title = <<>>
             THEN detect_tv_from(p + 1, cb)
             ELSE [ok |-> TRUE, title |-> title,
                   season |-> PatternSeason(p, cb[i]),
                   episode |-> PatternEpisode(p, cb[i])]

detect_tv(name) == detect_tv_from(1, sanitize_for_matching(name.toks))

\* (mutant) years up to two years ahead are accepted
detect_movie_two_ahead(name) ==
    LET cb == sanitize_for_matching(name.toks)
        i == FirstIndex(cb, year_pattern)
        y == IF i = 0 THEN 0 ELSE ToInt(cb[i].d)
        valid == i > 0 /\ 1900 <= y /\ y <= CurrentYear + 2
        title == clean_title(IF valid THEN SubSeq(cb, 1, i - 1) ELSE cb)
    IN  IF title = <<>> THEN NoMovie
        ELSE [ok |-> TRUE, title |-> title, year |-> IF valid THEN y ELSE 0]

detect_movie(name) ==
    LET cb == sanitize_for_matching(name.toks)
        i == FirstIndex(cb, year_pattern)
        y == IF i = 0 THEN 0 ELSE ToInt(cb[i].d)
        valid == i > 0 /\ 1900 <= y /\ y <= CurrentYear + 1
        title == clean_title(IF valid THEN SubSeq(cb, 1, i - 1) ELSE cb)
    IN  IF title = <<>> THEN NoMovie
        ELSE [ok |-> TRUE, title |-> title, year |-> IF valid THEN y ELSE 0]

(***************************************************************************)
(* get_resolution: the resolution markers are looked up as substrings of   *)
(* the whole lower-cased name.  Of the tokens used here, a tag <n>p holds  *)
(* its marker and the word Rec4K holds the marker 4k.                      *)
(***************************************************************************)
HasMarker(toks, n) ==
    \E i \in 1..Len(toks) :
        \/ toks[i].k = "tag" /\ toks[i].n = n
        \/ n = 2160 /\ toks[i].k = "word" /\ toks[i].w = "Rec4K"

get_resolution(toks) ==
    IF HasMarker(toks, 2160) THEN 2160
    ELSE IF HasMarker(toks, 1080) THEN 1080
    ELSE IF HasMarker(toks, 720) THEN 720
    ELSE IF HasMarker(toks, 480) THEN 480
    ELSE 0

is_video_file(name) == name.ext \in VIDEO_EXTS

is_temporary_file(name) == name.ext \in TEMP_PARTIAL_SUFFIXES

SKIP_SAMPLES == TRUE

IsSample(name) ==
    \E i \in 1..Len(name.toks) : name.toks[i].k = "word" /\ name.toks[i].w = "Sample"

(***************************************************************************)
(* The media tree.  A directory and a file are named by their components:  *)
(*   <TV_ROOT>/<title>/Season <season>/<title>.S<season>E<episode>.<ext>   *)
(*   <MOVIE_ROOT>/<title> (<year>)/<title>.<year>.<ext>   (year 0: absent) *)
(* A file of the tree remembers the source it was placed from and how.     *)
(* part marks the temporary sibling <name>.part of the copy fallback.      *)
(* tag is the resolution tag <n>p a file has between episode and extension *)
(* when it was put into the library by other means (process_tv lists every *)
(* file whose name begins <title>.S<season>E<episode>.); the program gives *)
(* its files none (0).                                                     *)
(***************************************************************************)
TvDir(title, season) ==
    [kind |-> "TV", title |-> title, season |-> season, year |-> 0]

MovieDir(title, year) ==
    [kind |-> "Movie", title |-> title, season |-> 0, year |-> year]

TvPath(title, season, episode, ext) ==
    [dir |-> TvDir(title, season), episode |-> episode, ext |-> ext, part |-> FALSE,
     tag |-> 0]

MoviePath(title, year, ext) ==
    [dir |-> MovieDir(title, year), episode |-> 0, ext |-> ext, part |-> FALSE,
     tag |-> 0]

\* tmp_dst = dst + ".part"
PartPath(dst) == [dst EXCEPT !.part = TRUE]

\* <title>.S<season>E<episode>.<tag>p.<ext>, a file the program did not name
TaggedPath(title, season, episode, ext, tag) ==
    [TvPath(title, season, episode, ext) EXCEPT !.tag = tag]

\* the name of a file of the tree, as get_resolution reads it
DestNameToks(path) ==
    LET toks == IF path.dir.kind = "TV"
                THEN Append(path.dir.title, SE(path.dir.season, path.episode))
                ELSE IF path.dir.year = 0 THEN path.dir.title
                ELSE Append(path.dir.title, Num(Digits(path.dir.year)))
    IN  IF path.tag = 0 THEN toks ELSE Append(toks, Tag(path.tag))

PathExists(files, path) == \E f \in files : f.path = path

\* the outcomes of os.link and of the copy fallback: linked; cross-device and
\* copied; cross-device, the copy failed and the temporary file is gone;
\* cross-device, the copy failed and the removal of the temporary file failed
\* too; another link error
LinkOutcomes == {"link", "copy", "copy_failed", "copy_failed_part_left", "error"}

(***************************************************************************)
(* State.  Time is kept as the age of each file, time.time() - mtime, which*)
(* is all the program reads of it; ages beyond the grace period are alike. *)
(***************************************************************************)
VARIABLES
    DRY_RUN,        \* configuration: nothing is created or deleted
    pool,           \* the names that may show up in the watch folder
    watch_dir,      \* environment: WATCH_FOLDER is a directory
    db_ok,          \* environment: sqlite3 can open and write jellylink.db
    ENABLE_WHATSAPP, \* configuration: notifications are on, Twilio is set up
    watch,          \* watch folder: name -> [present, age, size]; size 0: empty
    pc,             \* main: "start", "scan", "loop", "file", "sleep"; not running:
                    \* "stopped" (interrupted or killed), "crashed" (an exception
                    \* left main), "exited" (sys.exit)
    video_files,    \* the part of the scan's list the loop has not reached
    cur,            \* full_path of the loop, a one-element sequence at "file"
    processed,      \* main's processed set
    dirs,           \* directories of the media tree
    files,          \* files of the media tree
    db,             \* rows of processed_media, a bag
    outcome,        \* what became of the link in the last call of process_file:
                    \* "none" (create_hardlink not reached), "exists", "dry_run",
                    \* or the outcome of os.link
    notice,         \* what became of the notification in the last call of
                    \* process_file: "none" (send_whatsapp_notification not
                    \* reached), "off", "dry_run", "sent" or "failed"
    tv_call,        \* the call of process_tv that is under way, when its
                    \* statements are taken one by one (SpecArbitration): a
                    \* one-element sequence [existing, order, o, before], the
                    \* files the loop has yet to compare, what glob listed,
                    \* what the environment does, and the tree and the table
                    \* at the entry of process_file; <<>> otherwise
    restarts,       \* restarts of the process so far
    attempts,       \* history: name -> calls of process_file, up to MaxAttempts
    events,         \* history: name -> change events since the loop last reached
                    \* the name, up to MaxEvents
    slept           \* history: name -> seconds slept since its last attempt in
                    \* this run; -1 when no retry of it is pending

conf == <<DRY_RUN, pool, watch_dir, db_ok, ENABLE_WHATSAPP>>
prog == <<conf, watch, pc, video_files, cur, processed, dirs, files, db, outcome,
          notice, tv_call, restarts>>
hist == <<attempts, events, slept>>
vars == <<prog, hist>>

Absent == [present |-> FALSE, age |-> 0, size |-> 0]

\* (mutant) a missing file counts as old
is_recently_modified_unless_missing(name, grace_period) ==
    watch[name].present /\ watch[name].age < grace_period

\* is_recently_modified: a missing file counts as recently modified
is_recently_modified(name, grace_period) ==
    IF ~watch[name].present THEN TRUE
    ELSE watch[name].age < grace_period

safe_makedirs(ds, d) == IF DRY_RUN THEN ds ELSE ds \cup {d}

\* os.makedirs raises (OSError) when the directory cannot be created; nothing
\* in safe_makedirs or in its callers catches it
MakedirsRaises(ds, d, fail) == ~DRY_RUN /\ d \notin ds /\ fail

\* (mutant) the copy fallback without the removal of the temporary file
create_hardlink_part_kept(fs, src, dst, out) ==
    LET others == {f \in fs : f.path # PartPath(dst)}
        part == [path |-> PartPath(dst), src |-> src, how |-> "part"]
    IN  IF PathExists(fs, dst) THEN [files |-> fs, outcome |-> "exists"]
        ELSE IF DRY_RUN THEN [files |-> fs, outcome |-> "dry_run"]
        ELSE [files |->
                CASE out = "link" ->
                       fs \cup {[path |-> dst, src |-> src, how |-> "link"]}
                  [] out = "copy" ->
                       others \cup {[path |-> dst, src |-> src, how |-> "copy"]}
                  [] out \in {"copy_failed", "copy_failed_part_left"} ->
                       others \cup {part}
                  [] OTHER -> fs,
              outcome |-> out]

\* (mutant) a destination that exists is replaced by the new link
create_hardlink_replacing(fs, src, dst, out) ==
    LET kept == {f \in fs : f.path # dst}
    IN  IF DRY_RUN THEN [files |-> fs, outcome |-> "dry_run"]
        ELSE IF out = "link"
        THEN [files |-> kept \cup {[path |-> dst, src |-> src, how |-> "link"]},
              outcome |-> out]
        ELSE [files |-> fs, outcome |-> out]

\* (mutant) the link is made at the temporary name and renamed into place
create_hardlink_two_step(fs, src, dst, out) ==
    LET others == {f \in fs : f.path # PartPath(dst)}
    IN  IF PathExists(fs, dst) THEN [files |-> fs, outcome |-> "exists"]
        ELSE IF DRY_RUN THEN [files |-> fs, outcome |-> "dry_run"]
        ELSE [files |->
                CASE out = "link" ->
                       others \cup {[path |-> dst, src |-> src, how |-> "rename"]}
                  [] out = "copy" ->
                       others \cup {[path |-> dst, src |-> src, how |-> "copy"]}
                  [] out = "copy_failed" -> others
                  [] out = "copy_failed_part_left" ->
                       others \cup {[path |-> PartPath(dst), src |-> src, how |-> "part"]}
                  [] OTHER -> fs,
              outcome |-> out]

\* create_hardlink: the files of the tree afterwards; out is what os.link and
\* the copy fallback do when they are reached
create_hardlink(fs, src, dst, out) ==
    LET others == {f \in fs : f.path # PartPath(dst)}
    IN  IF PathExists(fs, dst) THEN [files |-> fs, outcome |-> "exists"]
        ELSE IF DRY_RUN THEN [files |-> fs, outcome |-> "dry_run"]
        ELSE [files |->
                CASE out = "link" ->
                       fs \cup {[path |-> dst, src |-> src, how |-> "link"]}
                  [] out = "copy" ->
                       others \cup {[path |-> dst, src |-> src, how |-> "copy"]}
                  [] out = "copy_failed" -> others
                  [] out = "copy_failed_part_left" ->
                       others \cup {[path |-> PartPath(dst), src |-> src, how |-> "part"]}
                  [] OTHER -> fs,
              outcome |-> out]

\* log_processed_media: one more row
Row(name, title, media_type, season, episode, year, dst) ==
    [filename |-> name, title |-> title, media_type |-> media_type,
     season |-> season, episode |-> episode, year |-> year, destination_path |-> dst]

log_processed_media(rows, name, title, media_type, season, episode, year, dst) ==
    IF db_ok
    THEN rows (+) SetToBag({Row(name, title, media_type, season, episode, year, dst)})
    ELSE rows

\* (mutant) an exception of the Twilio client leaves the call
send_whatsapp_notification_raising(sent) ==
    IF ~ENABLE_WHATSAPP THEN [notice |-> "off", raised |-> FALSE]
    ELSE IF DRY_RUN THEN [notice |-> "dry_run", raised |-> FALSE]
    ELSE IF sent THEN [notice |-> "sent", raised |-> FALSE]
    ELSE [notice |-> "failed", raised |-> TRUE]

\* send_whatsapp_notification: one call of client.messages.create inside
\* try/except Exception; sent tells whether Twilio accepts the message.
\* raised: an exception leaves the call
send_whatsapp_notification(sent) ==
    IF ~ENABLE_WHATSAPP THEN [notice |-> "off", raised |-> FALSE]
    ELSE IF DRY_RUN THEN [notice |-> "dry_run", raised |-> FALSE]
    ELSE IF sent THEN [notice |-> "sent", raised |-> FALSE]
    ELSE [notice |-> "failed", raised |-> FALSE]

\* what the environment decides during one call of process_file: the outcome
\* of os.link, the os.remove calls that fail, whether os.makedirs fails,
\* whether Twilio accepts the message (when one is sent)
Outcomes(fs) ==
    [link : LinkOutcomes, rmFail : SUBSET {f.path : f \in fs}, mkdirFail : BOOLEAN,
     sent : IF ENABLE_WHATSAPP /\ ~DRY_RUN THEN BOOLEAN ELSE {TRUE}]

\* the orders in which glob may list the files of S
Orders(S) ==
    {q \in [1..Cardinality(S) -> S] : \A i, j \in 1..Cardinality(S) : q[i] = q[j] => i = j}

\* (mutant) the loop deletes in dry-run mode too
RECURSIVE QualityLoopDryRunDeletes(_, _, _, _)
QualityLoopDryRunDeletes(existing, new_resolution, fs, rmFail) ==
    IF existing = <<>> THEN [files |-> fs, should_process |-> TRUE]
    ELSE LET f == Head(existing)
             existing_res == get_resolution(DestNameToks(f.path))
         IN  IF new_resolution > existing_res
             THEN QualityLoopDryRunDeletes(Tail(existing), new_resolution,
                                           IF f.path \in rmFail THEN fs ELSE fs \ {f},
                                           rmFail)
             ELSE [files |-> fs, should_process |-> FALSE]

\* process_tv, the loop "for existing in existing_files"
RECURSIVE QualityLoop(_, _, _, _)
QualityLoop(existing, new_resolution, fs, rmFail) ==
    IF existing = <<>> THEN [files |-> fs, should_process |-> TRUE]
    ELSE LET f == Head(existing)
             existing_res == get_resolution(DestNameToks(f.path))
         IN  IF new_resolution > existing_res
             THEN QualityLoop(Tail(existing), new_resolution,
                              IF DRY_RUN \/ f.path \in rmFail THEN fs ELSE fs \ {f},
                              rmFail)
             ELSE [files |-> fs, should_process |-> FALSE]

ExistingFiles(ds, fs, title, season, episode) ==
    IF TvDir(title, season) \in ds
    THEN {f \in fs : f.path.dir = TvDir(title, season) /\ f.path.episode = episode}
    ELSE {}

\* process_tv and process_movie: raised tells that an exception left the call
process_tv(w, name, title, season, episode, order, o) ==
    LET ds == safe_makedirs(w.dirs, TvDir(title, season))
        new_resolution == get_resolution(name.toks)
        loop == QualityLoop(order, new_resolution, w.files, o.rmFail)
        dest_path == TvPath(title, season, episode, name.ext)
        link == create_hardlink(loop.files, name, dest_path, o.link)
        note == send_whatsapp_notification(o.sent)
    IN  IF MakedirsRaises(w.dirs, TvDir(title, season), o.mkdirFail)
        THEN [raised |-> TRUE, dirs |-> w.dirs, files |-> w.files, db |-> w.db,
              outcome |-> "none", notice |-> "none"]
        ELSE IF ~loop.should_process
        THEN [raised |-> FALSE, dirs |-> ds, files |-> loop.files, db |-> w.db,
              outcome |-> "none", notice |-> "none"]
        ELSE [raised |-> note.raised, dirs |-> ds, files |-> link.files,
              db |-> log_processed_media(w.db, name, title, "TV", season, episode, 0,
                                         dest_path),
              outcome |-> link.outcome, notice |-> note.notice]

process_movie(w, name, title, year, o) ==
    LET dest_path == MoviePath(title, year, name.ext)
        link == create_hardlink(w.files, name, dest_path, o.link)
        note == send_whatsapp_notification(o.sent)
    IN  IF MakedirsRaises(w.dirs, MovieDir(title, year), o.mkdirFail)
        THEN [raised |-> TRUE, dirs |-> w.dirs, files |-> w.files, db |-> w.db,
              outcome |-> "none", notice |-> "none"]
        ELSE [raised |-> note.raised,
              dirs |-> safe_makedirs(w.dirs, MovieDir(title, year)),
              files |-> link.files,
              db |-> log_processed_media(w.db, name, title, "Movie", 0, 0, year,
                                         dest_path),
              outcome |-> link.outcome, notice |-> note.notice]

\* (mutant) an episode match always wins, as in the older src/jelly.py
ClassifyTvFirst(name) ==
    LET movie_info == detect_movie(name)
        tv_info == detect_tv(name)
    IN  IF tv_info.ok THEN "tv"
        ELSE IF movie_info.ok /\ movie_info.year # 0 THEN "movie_year"
        ELSE IF movie_info.ok THEN "movie_fallback"
        ELSE "unmatched"

\* (mutant) a name without a year is never filed as a movie
ClassifyNoFallback(name) ==
    LET movie_info == detect_movie(name)
        tv_info == detect_tv(name)
    IN  IF movie_info.ok /\ movie_info.year # 0
        THEN IF /\ tv_info.ok
                /\ \/ tv_info.episode > 50
                   \/ Contains(Digits(movie_info.year), Digits(tv_info.episode))
             THEN "movie_tv_ignored"
             ELSE "movie_year"
        ELSE IF tv_info.ok THEN "tv"
        ELSE "unmatched"

\* the branch process_file takes for a name that passed the readiness checks
Classify(name) ==
    LET movie_info == detect_movie(name)
        tv_info == detect_tv(name)
    IN  IF movie_info.ok /\ movie_info.year # 0
        THEN IF /\ tv_info.ok
                /\ \/ tv_info.episode > 50
                   \/ Contains(Digits(movie_info.year), Digits(tv_info.episode))
             THEN "movie_tv_ignored"
             ELSE "movie_year"
        ELSE IF tv_info.ok THEN "tv"
        ELSE IF movie_info.ok THEN "movie_fallback"
        ELSE "unmatched"

\* process_file: the value returned (or raised: an exception left the call),
\* the tree and the table afterwards, and what became of the link
process_file(w, name, order, o) ==
    LET movie_info == detect_movie(name)
        tv_info == detect_tv(name)
        same(r) == [ret |-> r, raised |-> FALSE, dirs |-> w.dirs, files |-> w.files,
                    db |-> w.db, outcome |-> "none", notice |-> "none"]
        done(v) == [ret |-> ~v.raised, raised |-> v.raised, dirs |-> v.dirs,
                    files |-> v.files, db |-> v.db, outcome |-> v.outcome,
                    notice |-> v.notice]
    IN  IF is_temporary_file(name) THEN same(FALSE)
        ELSE IF ~is_video_file(name) THEN same(FALSE)
        ELSE IF SKIP_SAMPLES /\ IsSample(name) THEN same(TRUE)
        ELSE IF is_recently_modified(name, DOWNLOAD_GRACE_PERIOD) THEN same(FALSE)
        ELSE CASE Classify(name) \in {"movie_tv_ignored", "movie_year", "movie_fallback"} ->
                    done(process_movie(w, name, movie_info.title, movie_info.year, o))
               [] Classify(name) = "tv" ->
                    done(process_tv(w, name, tv_info.title, tv_info.season,
                                    tv_info.episode, order, o))
               [] OTHER -> same(TRUE)

(***************************************************************************)
(* The names explored.  The pipeline runs on small pools of hand-picked    *)
(* names; the classification is run on every stem of at most MaxLen tokens *)
(* of Vocab.                                                               *)
(***************************************************************************)
Name(toks, ext) == [toks |-> toks, ext |-> ext]

Vocab ==
    {Word("Show"), Tag(1080), SE(1, 5), SE(1, 20), SE(1, 99), NxM(2, 5),
     Num(<<2>>), Num(<<2, 0, 5>>), Num(<<2, 0, 2, 0>>), Num(<<2, 0, 9, 9>>),
     Num(Digits(CurrentYear + 1)), Num(Digits(CurrentYear + 2))}

Stems == UNION {[1..l -> Vocab] : l \in 1..MaxLen}

Ep720 == Name(<<Word("Show"), SE(1, 5), Tag(720)>>, "mkv")
Ep1080 == Name(<<Word("Show"), SE(1, 5), Tag(1080)>>, "mkv")
Ep1080mp4 == Name(<<Word("Show"), SE(1, 5), Tag(1080)>>, "mp4")
EpPlain == Name(<<Word("Show"), SE(1, 5)>>, "mkv")
Ep4K720 == Name(<<Word("Rec4K"), SE(1, 5), Tag(720)>>, "mkv")
Ep4K1080 == Name(<<Word("Rec4K"), SE(1, 5), Tag(1080)>>, "mkv")
Movie1080 == Name(<<Word("Show"), Num(<<2, 0, 2, 0>>), Tag(1080)>>, "mkv")
Movie720 == Name(<<Word("Show"), Num(<<2, 0, 2, 0>>), Tag(720)>>, "mkv")
YearEp == Name(<<Word("Show"), Num(<<2, 0, 2, 0>>), SE(1, 5)>>, "mkv")
NoYear == Name(<<Word("Show")>>, "mkv")
TagOnly == Name(<<Tag(1080)>>, "mkv")
Partial == Name(<<Word("Show"), SE(1, 5)>>, "part")
NotVideo == Name(<<Word("Show"), SE(1, 5)>>, "nfo")
SampleClip == Name(<<Word("Show"), Word("Sample")>>, "mkv")

\* the pools of the scan loop's timing, of the placement, of the classification
TimingPools ==
    {{Ep720}, {Movie1080}, {NoYear}, {TagOnly}, {Partial}, {NotVideo}, {SampleClip}}

PlacePools ==
    {{Ep720, Ep1080}, {Ep1080, Ep1080mp4}, {EpPlain, Ep720}, {Ep4K720, Ep4K1080},
     {Movie1080, Movie720}, {YearEp}, {NoYear}, {TagOnly}}

ClassifyPools == {{Name(s, "mkv")} : s \in Stems}

(***************************************************************************)
(* The initial states: main() enters its loop.                             *)
(***************************************************************************)
Ready == [present |-> TRUE, age |-> DOWNLOAD_GRACE_PERIOD, size |-> 1]

InitLoop ==
    /\ pc = "start"
    /\ outcome = "none"
    /\ notice = "none"
    /\ tv_call = <<>>
    /\ video_files = <<>>
    /\ cur = <<>>
    /\ processed = {}
    /\ db = EmptyBag
    /\ restarts = 0
    /\ attempts = [n \in pool |-> 0]
    /\ events = [n \in pool |-> 0]
    /\ slept = [n \in pool |-> 0 - 1]

\* the media tree is empty at first
InitMain == InitLoop /\ dirs = {} /\ files = {}

\* the watch folder is empty at first
Init ==
    /\ DRY_RUN \in BOOLEAN
    /\ watch_dir = TRUE
    /\ db_ok = TRUE
    /\ ENABLE_WHATSAPP = FALSE
    /\ pool \in TimingPools
    /\ watch = [n \in pool |-> Absent]
    /\ InitMain

\* the files are in the watch folder, long written
InitPlace ==
    /\ DRY_RUN \in BOOLEAN
    /\ watch_dir = TRUE
    /\ db_ok = TRUE
    /\ ENABLE_WHATSAPP = FALSE
    /\ pool \in PlacePools
    /\ watch = [n \in pool |-> Ready]
    /\ InitMain

InitClassify ==
    /\ DRY_RUN = FALSE
    /\ watch_dir = TRUE
    /\ db_ok = TRUE
    /\ ENABLE_WHATSAPP = FALSE
    /\ pool \in ClassifyPools
    /\ watch = [n \in pool |-> Ready]
    /\ InitMain

\* any environment at startup
InitStartup ==
    /\ DRY_RUN \in BOOLEAN
    /\ watch_dir \in BOOLEAN
    /\ db_ok \in BOOLEAN
    /\ ENABLE_WHATSAPP \in BOOLEAN
    /\ pool \in PlacePools
    /\ watch = [n \in pool |-> Ready]
    /\ InitMain

\* episode files of Show S01E05 that were put into the library by other
\* means, under names with a resolution tag
LibraryFile(tag, ext) ==
    [path |-> TaggedPath(detect_tv(Ep720).title, 1, 5, ext, tag),
     src |-> Name(<<Word("Show"), SE(1, 5), Tag(tag)>>, ext),
     how |-> "other"]

LibraryFiles == {LibraryFile(720, "mkv"), LibraryFile(1080, "mkv"), LibraryFile(1080, "mp4")}

LibraryPools ==
    {{Ep720}, {Ep1080}, {EpPlain}, {Ep720, Ep1080}, {Ep1080, Ep1080mp4}, {Ep720, Movie1080}}

\* the library holds files already when the program is started
InitLibrary ==
    /\ DRY_RUN \in BOOLEAN
    /\ watch_dir = TRUE
    /\ db_ok = TRUE
    /\ ENABLE_WHATSAPP = FALSE
    /\ pool \in LibraryPools
    /\ watch = [n \in pool |-> Ready]
    /\ files \in SUBSET LibraryFiles
    /\ dirs = {f.path.dir : f \in files}
    /\ InitLoop

(***************************************************************************)
(* The environment: the downloader writing into the watch folder.          *)
(***************************************************************************)
\* a file appears: just written, or moved in with an old mtime
Arrive(n) ==
    /\ ~watch[n].present
    /\ \E a \in {0, DOWNLOAD_GRACE_PERIOD}, z \in {0, 1} :
         watch' = [watch EXCEPT ![n] = [present |-> TRUE, age |-> a, size |-> z]]
    /\ UNCHANGED <<conf, tv_call, outcome, notice, pc, video_files, cur, processed, dirs, files, db,
                   restarts>>

\* a present file is written to or touched
Modify(n) ==
    /\ watch[n].present
    /\ \E z \in {watch[n].size, 1} :
         watch' = [watch EXCEPT ![n] = [present |-> TRUE, age |-> 0, size |-> z]]
    /\ UNCHANGED <<conf, tv_call, outcome, notice, pc, video_files, cur, processed, dirs, files, db,
                   restarts>>

\* a file is taken out of the watch folder
Remove(n) ==
    /\ watch[n].present
    /\ watch' = [watch EXCEPT ![n] = Absent]
    /\ UNCHANGED <<conf, tv_call, outcome, notice, pc, video_files, cur, processed, dirs, files, db,
                   restarts>>

(***************************************************************************)
(* main(): the scan loop.                                                  *)
(***************************************************************************)
\* init_db() logs a failure and returns; a missing watch folder ends the
\* program with sys.exit(1)
Startup ==
    /\ pc = "start"
    /\ pc' = IF watch_dir THEN "scan" ELSE "exited"
    /\ UNCHANGED <<conf, tv_call, outcome, notice, watch, video_files, cur, processed, dirs, files, db,
                   restarts>>

\* (mutant) the walk reports every file twice
find_video_files_twice ==
    {q \o q : q \in Orders({n \in pool : watch[n].present})}

\* find_video_files: every file of the watch folder once, in the order of the walk
find_video_files == Orders({n \in pool : watch[n].present})

\* video_files = find_video_files(WATCH_FOLDER)
Scan ==
    /\ pc = "scan"
    /\ \E q \in find_video_files : video_files' = q
    /\ pc' = "loop"
    /\ UNCHANGED <<conf, tv_call, outcome, notice, watch, cur, processed, dirs, files, db, restarts>>

\* (mutant) a path is dropped once it was attempted more than MaxRetries times
AlreadyProcessedOrGivenUp(n) == n \in processed \/ attempts[n] > MaxRetries

\* (mutant) the processed set is not consulted
AlreadyProcessedIgnored(n) == FALSE

\* for full_path in video_files: if full_path in processed: continue
AlreadyProcessed(n) == n \in processed

LoopNext ==
    /\ pc = "loop"
    /\ video_files # <<>>
    /\ video_files' = Tail(video_files)
    /\ IF AlreadyProcessed(Head(video_files))
       THEN pc' = "loop" /\ cur' = <<>>
       ELSE pc' = "file" /\ cur' = <<Head(video_files)>>
    /\ UNCHANGED <<conf, tv_call, outcome, notice, watch, processed, dirs, files, db, restarts>>

\* success = process_file(full_path); if success: processed.add(full_path)
MarkProcessed(done, n, success) == IF success THEN done \cup {n} ELSE done

\* the files glob lists for the slot of name n, when n is an episode
Listed(n) ==
    LET tv == detect_tv(n)
    IN  ExistingFiles(safe_makedirs(dirs, TvDir(tv.title, tv.season)), files,
                      tv.title, tv.season, tv.episode)

\* an exception of process_file is caught nowhere (main catches
\* KeyboardInterrupt only): the program ends with a traceback
ProcessFile ==
    /\ pc = "file"
    /\ \E order \in Orders(Listed(cur[1])), o \in Outcomes(files) :
         LET r == process_file([dirs |-> dirs, files |-> files, db |-> db],
                               cur[1], order, o)
         IN  /\ dirs' = r.dirs
             /\ files' = r.files
             /\ db' = r.db
             /\ outcome' = r.outcome
             /\ notice' = r.notice
             /\ IF r.raised
                THEN pc' = "crashed" /\ processed' = {} /\ video_files' = <<>>
                ELSE /\ pc' = "loop"
                     /\ processed' = MarkProcessed(processed, cur[1], r.ret)
                     /\ video_files' = video_files
    /\ cur' = <<>>
    /\ UNCHANGED <<conf, tv_call, watch, restarts>>

\* the tree when KeyboardInterrupt arrives inside process_tv or process_movie:
\* after safe_makedirs, after the deletions of the quality loop, or after
\* create_hardlink and before log_processed_media
InterruptPoints == {"makedirs", "remove", "link"}

process_file_interrupted(w, name, order, o, point) ==
    LET tv_info == detect_tv(name)
        movie_info == detect_movie(name)
        tv == Classify(name) = "tv"
        dest_dir == IF tv THEN TvDir(tv_info.title, tv_info.season)
                    ELSE MovieDir(movie_info.title, movie_info.year)
        dest_path == IF tv THEN TvPath(tv_info.title, tv_info.season, tv_info.episode,
                                       name.ext)
                     ELSE MoviePath(movie_info.title, movie_info.year, name.ext)
        loop == IF tv THEN QualityLoop(order, get_resolution(name.toks), w.files,
                                       o.rmFail)
                ELSE [files |-> w.files, should_process |-> TRUE]
    IN  [dirs |-> safe_makedirs(w.dirs, dest_dir),
         files |-> CASE point = "makedirs" -> w.files
                     [] point = "remove" -> loop.files
                     [] OTHER -> IF loop.should_process
                                 THEN create_hardlink(loop.files, name, dest_path,
                                                      o.link).files
                                 ELSE loop.files]

\* KeyboardInterrupt while process_file places a file: no handler inside
\* catches it (they catch Exception), main logs "Stopped by user." and ends
Interrupt ==
    /\ pc = "file"
    /\ restarts < MaxRestarts
    /\ is_video_file(cur[1]) /\ ~is_temporary_file(cur[1])
    /\ ~(SKIP_SAMPLES /\ IsSample(cur[1]))
    /\ ~is_recently_modified(cur[1], DOWNLOAD_GRACE_PERIOD)
    /\ Classify(cur[1]) # "unmatched"
    /\ \E order \in Orders(Listed(cur[1])), o \in Outcomes(files),
          point \in InterruptPoints :
         LET r == process_file_interrupted([dirs |-> dirs, files |-> files, db |-> db],
                                           cur[1], order, o, point)
         IN  /\ ~o.mkdirFail
             /\ dirs' = r.dirs
             /\ files' = r.files
    /\ pc' = "stopped"
    /\ processed' = {}
    /\ video_files' = <<>>
    /\ cur' = <<>>
    /\ UNCHANGED <<conf, tv_call, outcome, notice, watch, db, restarts>>

(***************************************************************************)
(* process_tv, statement by statement: the steps of the read-compare-      *)
(* delete-write arbitration of one episode slot.                           *)
(***************************************************************************)
\* process_file reaches process_tv for the current file
ReachesProcessTv ==
    /\ pc = "file"
    /\ is_video_file(cur[1]) /\ ~is_temporary_file(cur[1])
    /\ ~(SKIP_SAMPLES /\ IsSample(cur[1]))
    /\ ~is_recently_modified(cur[1], DOWNLOAD_GRACE_PERIOD)
    /\ Classify(cur[1]) = "tv"

\* safe_makedirs(dest_dir), then existing_files = the files glob lists
TvEnter ==
    /\ ReachesProcessTv
    /\ \E order \in Orders(Listed(cur[1])), o \in Outcomes(files) :
         /\ ~o.mkdirFail
         /\ tv_call' = <<[existing |-> order, order |-> order, o |-> o,
                          before |-> [dirs |-> dirs, files |-> files, db |-> db]]>>
    /\ dirs' = safe_makedirs(dirs, TvDir(detect_tv(cur[1]).title, detect_tv(cur[1]).season))
    /\ pc' = "tv"
    /\ UNCHANGED <<conf, outcome, notice, watch, video_files, cur, processed, files, db,
                   restarts>>

\* one turn of "for existing in existing_files": the file is removed when
\* the new one is better, otherwise process_tv returns without placing
TvCompare ==
    /\ pc = "tv"
    /\ tv_call[1].existing # <<>>
    /\ LET f == Head(tv_call[1].existing)
       IN  IF get_resolution(cur[1].toks) > get_resolution(DestNameToks(f.path))
           THEN /\ files' = IF DRY_RUN \/ f.path \in tv_call[1].o.rmFail
                             THEN files ELSE files \ {f}
                /\ tv_call' = <<[tv_call[1] EXCEPT !.existing = Tail(@)]>>
                /\ UNCHANGED <<pc, cur, processed, outcome, notice>>
           ELSE /\ pc' = "loop"
                /\ processed' = MarkProcessed(processed, cur[1], TRUE)
                /\ outcome' = "none"
                /\ notice' = "none"
                /\ tv_call' = <<>>
                /\ cur' = <<>>
                /\ UNCHANGED files
    /\ UNCHANGED <<conf, watch, video_files, dirs, db, restarts>>

\* (mutant) the link is written into the tree as it was when the call began
TvPlaceOnStaleTree ==
    /\ pc = "tv"
    /\ tv_call[1].existing = <<>>
    /\ LET tv == detect_tv(cur[1])
           dest_path == TvPath(tv.title, tv.season, tv.episode, cur[1].ext)
           link == create_hardlink(tv_call[1].before.files, cur[1], dest_path,
                                   tv_call[1].o.link)
       IN  /\ files' = link.files
           /\ outcome' = link.outcome
           /\ db' = log_processed_media(db, cur[1], tv.title, "TV", tv.season,
                                        tv.episode, 0, dest_path)
           /\ notice' = send_whatsapp_notification(tv_call[1].o.sent).notice
    /\ pc' = "loop"
    /\ processed' = MarkProcessed(processed, cur[1], TRUE)
    /\ tv_call' = <<>>
    /\ cur' = <<>>
    /\ UNCHANGED <<conf, watch, video_files, dirs, restarts>>

\* the loop is through: create_hardlink, log_processed_media and the
\* notification; process_file returns True
TvPlace ==
    /\ pc = "tv"
    /\ tv_call[1].existing = <<>>
    /\ LET tv == detect_tv(cur[1])
           dest_path == TvPath(tv.title, tv.season, tv.episode, cur[1].ext)
           link == create_hardlink(files, cur[1], dest_path, tv_call[1].o.link)
       IN  /\ files' = link.files
           /\ outcome' = link.outcome
           /\ db' = log_processed_media(db, cur[1], tv.title, "TV", tv.season,
                                        tv.episode, 0, dest_path)
           /\ notice' = send_whatsapp_notification(tv_call[1].o.sent).notice
    /\ pc' = "loop"
    /\ processed' = MarkProcessed(processed, cur[1], TRUE)
    /\ tv_call' = <<>>
    /\ cur' = <<>>
    /\ UNCHANGED <<conf, watch, video_files, dirs, restarts>>

\* every other call of process_file, taken at once
ProcessOther == ~ReachesProcessTv /\ ProcessFile

\* the list is exhausted
LoopEnd ==
    /\ pc = "loop"
    /\ video_files = <<>>
    /\ pc' = "sleep"
    /\ UNCHANGED <<conf, tv_call, outcome, notice, watch, video_files, cur, processed, dirs, files,
                   db, restarts>>

\* the backoff the specification describes, with SCAN_INTERVAL as base delay
BaseDelay == SCAN_INTERVAL
MaxDelay == 20 * SCAN_INTERVAL
Min(a, b) == IF a < b THEN a ELSE b
Backoff(attempt) == Min(MaxDelay, BaseDelay * 2 ^ Min(attempt, 8))

\* (mutant) the sleep grows with the attempts made so far
SleepDelayBackoff ==
    Backoff(CHOOSE a \in 0..MaxAttempts :
              /\ \E n \in pool : attempts[n] = a
              /\ \A n \in pool : attempts[n] <= a)

\* time.sleep(SCAN_INTERVAL): every file is that much older
SleepDelay == SCAN_INTERVAL

Older(a, by) ==
    IF a + by < DOWNLOAD_GRACE_PERIOD THEN a + by ELSE DOWNLOAD_GRACE_PERIOD

Sleep ==
    /\ pc = "sleep"
    /\ watch' = [n \in pool |->
                   IF watch[n].present
                   THEN [watch[n] EXCEPT !.age = Older(watch[n].age, SleepDelay)]
                   ELSE watch[n]]
    /\ pc' = "scan"
    /\ UNCHANGED <<conf, tv_call, outcome, notice, video_files, cur, processed, dirs, files, db,
                   restarts>>

\* the process ends (KeyboardInterrupt, kill): what main() held in memory is gone
Stop ==
    /\ pc \notin {"stopped", "crashed", "exited"}
    /\ restarts < MaxRestarts
    /\ pc' = "stopped"
    /\ processed' = {}
    /\ video_files' = <<>>
    /\ cur' = <<>>
    /\ UNCHANGED <<conf, tv_call, outcome, notice, watch, dirs, files, db, restarts>>

\* the program is started again: main() begins with processed = set()
Start ==
    /\ pc \in {"stopped", "crashed", "exited"}
    /\ restarts < MaxRestarts
    /\ restarts' = restarts + 1
    /\ pc' = "start"
    /\ UNCHANGED <<conf, tv_call, outcome, notice, watch, video_files, cur, processed, dirs, files, db>>

(***************************************************************************)
(* The history variables, as each action changes them.                     *)
(***************************************************************************)
NoRetryPending == 0 - 1

HistChange(n) ==
    /\ events' = [events EXCEPT ![n] = Min(@ + 1, MaxEvents)]
    /\ UNCHANGED <<attempts, slept>>

HistScan ==
    /\ slept' = [n \in pool |-> IF watch[n].present THEN slept[n] ELSE NoRetryPending]
    /\ UNCHANGED <<attempts, events>>

HistLoopNext ==
    /\ events' = [events EXCEPT ![Head(video_files)] = 0]
    /\ slept' = [slept EXCEPT ![Head(video_files)] =
                   IF pc' = "file" THEN @ ELSE NoRetryPending]
    /\ UNCHANGED attempts

HistProcessFile ==
    /\ attempts' = [attempts EXCEPT ![cur[1]] = Min(@ + 1, MaxAttempts)]
    /\ slept' = [slept EXCEPT ![cur[1]] = 0]
    /\ UNCHANGED events

HistSleep ==
    /\ slept' = [n \in pool |->
                   IF slept[n] = NoRetryPending THEN NoRetryPending
                   ELSE slept[n] + SleepDelay]
    /\ UNCHANGED <<attempts, events>>

HistStart ==
    /\ slept' = [n \in pool |-> NoRetryPending]
    /\ UNCHANGED <<attempts, events>>

(***************************************************************************)
(* The specifications.                                                     *)
(***************************************************************************)
\* the scan loop with the downloader at work
Next ==
    \/ \E n \in pool : Arrive(n) /\ HistChange(n)
    \/ \E n \in pool : Modify(n) /\ HistChange(n)
    \/ \E n \in pool : Remove(n) /\ UNCHANGED hist
    \/ Startup /\ UNCHANGED hist
    \/ Interrupt /\ UNCHANGED hist
    \/ Scan /\ HistScan
    \/ LoopNext /\ HistLoopNext
    \/ ProcessFile /\ HistProcessFile
    \/ LoopEnd /\ UNCHANGED hist
    \/ Sleep /\ HistSleep
    \/ Stop /\ UNCHANGED hist
    \/ Start /\ HistStart

Spec == Init /\ [][Next]_vars

\* the scan loop kept running: no interrupt, no kill; while the program runs
\* its next step is eventually taken
LoopStep ==
    \/ Startup /\ UNCHANGED hist
    \/ Scan /\ HistScan
    \/ LoopNext /\ HistLoopNext
    \/ ProcessFile /\ HistProcessFile
    \/ LoopEnd /\ UNCHANGED hist
    \/ Sleep /\ HistSleep

NextLive ==
    \/ \E n \in pool : Arrive(n) /\ HistChange(n)
    \/ \E n \in pool : Modify(n) /\ HistChange(n)
    \/ \E n \in pool : Remove(n) /\ UNCHANGED hist
    \/ LoopStep

\* one file of the three kinds that are placed, nothing in the library yet
LivePools == {{Ep720}, {Movie1080}, {NoYear}}

InitLive ==
    /\ DRY_RUN = FALSE
    /\ watch_dir = TRUE
    /\ db_ok = TRUE
    /\ ENABLE_WHATSAPP = FALSE
    /\ pool \in LivePools
    /\ watch = [n \in pool |-> Absent]
    /\ InitMain

SpecLive == InitLive /\ [][NextLive]_vars /\ WF_vars(LoopStep)

\* the scan loop on files that are complete
NextPlace ==
    \/ \E n \in pool : Remove(n) /\ UNCHANGED hist
    \/ Startup /\ UNCHANGED hist
    \/ Interrupt /\ UNCHANGED hist
    \/ Scan /\ UNCHANGED hist
    \/ LoopNext /\ UNCHANGED hist
    \/ ProcessFile /\ UNCHANGED hist
    \/ LoopEnd /\ UNCHANGED hist
    \/ Sleep /\ UNCHANGED hist
    \/ Stop /\ UNCHANGED hist
    \/ Start /\ UNCHANGED hist

SpecPlace == InitPlace /\ [][NextPlace]_vars

\* one scan over a single file
NextClassify ==
    \/ Startup /\ UNCHANGED hist
    \/ Scan /\ UNCHANGED hist
    \/ LoopNext /\ UNCHANGED hist
    \/ ProcessFile /\ UNCHANGED hist
    \/ LoopEnd /\ UNCHANGED hist

SpecClassify == InitClassify /\ [][NextClassify]_vars

\* the program from its start, in any environment, to the end of a scan
NextStartup ==
    \/ Startup /\ UNCHANGED hist
    \/ Scan /\ UNCHANGED hist
    \/ LoopNext /\ UNCHANGED hist
    \/ ProcessFile /\ UNCHANGED hist
    \/ LoopEnd /\ UNCHANGED hist
    \/ Sleep /\ UNCHANGED hist

SpecStartup == InitStartup /\ [][NextStartup]_vars

\* the scan loop over a library that holds files already
SpecLibrary == InitLibrary /\ [][NextStartup]_vars

\* the same, with process_tv taken statement by statement
NextArbitration ==
    \/ Startup /\ UNCHANGED hist
    \/ Scan /\ UNCHANGED hist
    \/ LoopNext /\ UNCHANGED hist
    \/ TvEnter /\ UNCHANGED hist
    \/ TvCompare /\ UNCHANGED hist
    \/ TvPlace /\ UNCHANGED hist
    \/ ProcessOther /\ UNCHANGED hist
    \/ LoopEnd /\ UNCHANGED hist
    \/ Sleep /\ UNCHANGED hist

SpecArbitration == InitLibrary /\ [][NextArbitration]_vars

(***************************************************************************)
(* Properties.                                                             *)
(***************************************************************************)
Range(q) == {q[i] : i \in 1..Len(q)}
Occurrences(q, n) == Cardinality({i \in 1..Len(q) : q[i] = n})
InFlight(n) == Occurrences(video_files, n) + (IF cur = <<n>> THEN 1 ELSE 0)

\* a step of the for loop that reaches name n
LoopReaches(n) ==
    /\ pc = "loop"
    /\ video_files # <<>>
    /\ Head(video_files) = n
    /\ video_files' = Tail(video_files)
    /\ pc' \in {"loop", "file"}

\* a call of process_file on name n that returns
Processes(n) == pc = "file" /\ cur = <<n>> /\ pc' = "loop"

\* C1: for every path at most one attempt is queued or executing at any
\* time: the scan lists a path once, one path is processed at a time, and
\* changes of a file while it is listed or processed queue nothing.
C1_OneInFlight == \A n \in pool : InFlight(n) <= 1

\* C1, the case: a path is being processed again (a retry) while change
\* events for it arrive.
C1_Witness ==
    \E n \in pool :
        pc = "file" /\ cur = <<n>> /\ attempts[n] >= 1 /\ events[n] = MaxEvents

\* C3 as claimed: within one run a path is attempted once and retried at most
\* MaxRetries times.
C3_GiveUpBound ==
    restarts = 0 => \A n \in pool : attempts[n] <= MaxRetries + 1

\* C3 as amended: there is no retry ceiling.  The count of attempts of a path
\* never decreases; a call of process_file that returns False leaves the path
\* out of processed; and whenever the loop reaches a path that is not in
\* processed it is attempted again, whatever the number of attempts so far.
C3_NoGiveUp ==
    [][\A n \in pool :
         /\ attempts'[n] >= attempts[n]
         /\ (LoopReaches(n) /\ n \notin processed) => (pc' = "file" /\ cur' = <<n>>)
         /\ (Processes(n) /\ n \in processed') =>
                \E order \in Orders(Listed(n)), o \in Outcomes(files) :
                    process_file([dirs |-> dirs, files |-> files, db |-> db],
                                 n, order, o).ret]_vars

\* C3, the case: an attempt of a path beyond the ceiling, within one run.
C3_Witness ==
    \E n \in pool :
        pc = "file" /\ cur = <<n>> /\ attempts[n] > MaxRetries /\ restarts = 0

\* C4 as claimed: the delay before a retry is the backoff of the number of
\* retries made before it.
C4_Backoff ==
    \A n \in pool :
        (pc = "file" /\ cur = <<n>> /\ slept[n] # NoRetryPending
           /\ attempts[n] < MaxAttempts)
        => slept[n] = Backoff(attempts[n] - 1)

\* C4 as amended: within a run the delay before every retry of a path is the
\* constant SCAN_INTERVAL, whatever the number of attempts: it equals the base
\* delay at the first retry, never decreases and never exceeds the cap.
C4_ConstantDelay ==
    \A n \in pool :
        (pc = "file" /\ cur = <<n>> /\ slept[n] # NoRetryPending)
        => slept[n] = SCAN_INTERVAL /\ slept[n] = Backoff(0) /\ slept[n] <= MaxDelay

\* C4, the case: a second or later retry after one sleep.
C4_Witness ==
    \E n \in pool :
        pc = "file" /\ cur = <<n>> /\ slept[n] = SCAN_INTERVAL /\ attempts[n] >= 2

\* C5 as claimed: change events for a path since the loop last reached it
\* give exactly one processing attempt when the loop reaches it next.
C5_DedupWindow ==
    [][\A n \in pool :
         (LoopReaches(n) /\ events[n] >= 1)
         => (pc' = "file" /\ cur' = <<n>> /\ n \notin Range(video_files'))]_vars

\* C5 as amended: change events for a path between two scans give at most
\* one processing attempt in the next scan: exactly one when the path is not
\* in processed, none when it is.
C5_AtMostOne ==
    [][\A n \in pool :
         (LoopReaches(n) /\ events[n] >= 1)
         => /\ n \notin Range(video_files')
            /\ n \notin processed => (pc' = "file" /\ cur' = <<n>>)
            /\ n \in processed => (pc' = "loop" /\ cur' = <<>>)]_vars

\* C5, the case: MaxEvents change events, and the path listed once.
C5_Witness ==
    /\ pc = "loop"
    /\ video_files # <<>>
    /\ events[Head(video_files)] = MaxEvents
    /\ Occurrences(video_files, Head(video_files)) = 1
    /\ Head(video_files) \notin processed

(***************************************************************************)
(* Placement (SpecPlace): every file of the pool is complete and is never  *)
(* written again, so a name stands for one version of a file.              *)
(***************************************************************************)
\* the call of process_file on n passes the readiness checks
PassesChecks(n) == watch[n].present /\ ~is_recently_modified(n, DOWNLOAD_GRACE_PERIOD)

\* the files of fs in the episode slot of name n
Slot(fs, n) ==
    LET tv == detect_tv(n)
    IN  {f \in fs : f.path.dir = TvDir(tv.title, tv.season) /\ f.path.episode = tv.episode}

\* C2 as claimed: one version of a file, submitted again within a run or
\* after a restart, never has a second destination file and never a second
\* row of processed_media.
C2_Idempotent ==
    /\ \A row \in BagToSet(db) : CopiesIn(row, db) <= 1
    /\ \A n \in pool : Cardinality({f \in files : f.src = n}) <= 1

\* C6 as claimed: when the slot of an episode holds a file placed from
\* another source whose resolution is higher than or equal to the incoming
\* one, processing the incoming file changes no file of the media tree.
C6_BetterOrEqualSurvives ==
    [][\A n \in pool :
         (/\ Processes(n)
          /\ PassesChecks(n)
          /\ Classify(n) = "tv"
          /\ \E f \in Slot(files, n) :
                 f.src # n /\ get_resolution(f.src.toks) >= get_resolution(n.toks))
         => files' = files]_vars

\* C7 as claimed: when every file the slot holds was placed from a source of
\* strictly lower resolution than the incoming one, processing the incoming
\* file removes them and the slot then holds the file placed from it.
C7_Upgrade ==
    [][\A n \in pool :
         (/\ Processes(n)
          /\ PassesChecks(n)
          /\ Classify(n) = "tv"
          /\ Slot(files, n) # {}
          /\ \A f \in Slot(files, n) :
                 get_resolution(f.src.toks) < get_resolution(n.toks))
         => /\ Slot(files', n) # {}
            /\ \A f \in Slot(files', n) : f.src = n]_vars

(***************************************************************************)
(* Classification (SpecClassify): one complete file, one scan.             *)
(***************************************************************************)
\* the year detect_movie accepts: the first 19xx or 20xx token, in range
FirstYear(n) ==
    LET cb == sanitize_for_matching(n.toks)
        i == FirstIndex(cb, year_pattern)
    IN  IF i > 0 /\ ToInt(cb[i].d) >= 1900 /\ ToInt(cb[i].d) <= CurrentYear + 1
        THEN ToInt(cb[i].d) ELSE 0

\* the episode number is implausible next to the year
Implausible(episode, year) ==
    episode > 50 \/ Contains(Digits(year), Digits(episode))

\* everything the tree and the table hold is the movie (title, year) from n:
\* its file, or what a failed copy left of it
FiledAsMovie(n, title, year) ==
    /\ dirs = {MovieDir(title, year)}
    /\ \A f \in files :
          /\ f.src = n
          /\ f.path \in {MoviePath(title, year, n.ext),
                          PartPath(MoviePath(title, year, n.ext))}
    /\ db = SetToBag({Row(n, title, "Movie", 0, 0, year, MoviePath(title, year, n.ext))})

\* everything the tree and the table hold is the episode from n
FiledAsEpisode(n, tv) ==
    /\ dirs = {TvDir(tv.title, tv.season)}
    /\ \A f \in files :
          /\ f.src = n
          /\ f.path \in {TvPath(tv.title, tv.season, tv.episode, n.ext),
                          PartPath(TvPath(tv.title, tv.season, tv.episode, n.ext))}
    /\ db = SetToBag({Row(n, tv.title, "TV", tv.season, tv.episode, 0,
                          TvPath(tv.title, tv.season, tv.episode, n.ext))})

NothingFiled == dirs = {} /\ files = {} /\ db = EmptyBag

\* C8 as claimed: a name with an episode match and a valid movie year, the
\* episode number plausible (at most 50, its digits not inside the year), is
\* filed as an episode and not as a movie.
C8_EpisodeWins ==
    \A n \in pool :
        (/\ n \in processed
         /\ detect_tv(n).ok
         /\ detect_movie(n).ok
         /\ FirstYear(n) # 0
         /\ ~Implausible(detect_tv(n).episode, FirstYear(n)))
        => FiledAsEpisode(n, detect_tv(n))

\* C9: a name with a valid movie year and an episode match whose number is
\* implausible (above 50, or its digits inside the year) is filed as a movie
\* of that year, under the title before the year, and not as an episode.
C9_MoviePreferred ==
    \A n \in pool :
        (/\ n \in processed
         /\ detect_tv(n).ok
         /\ detect_movie(n).ok
         /\ FirstYear(n) # 0
         /\ Implausible(detect_tv(n).episode, FirstYear(n)))
        => FiledAsMovie(n, detect_movie(n).title, FirstYear(n))

\* C9, the case: such a name was processed and its movie file was linked.
C9_Witness ==
    \E n \in pool :
        /\ n \in processed
        /\ detect_tv(n).ok
        /\ FirstYear(n) # 0
        /\ Implausible(detect_tv(n).episode, FirstYear(n))
        /\ \E f \in files : f.path.dir.kind = "Movie" /\ f.how = "link"

\* C10 as claimed: a name with no episode match and no valid year is
\* unmatched: nothing is created for it and no row is written.
C10_Unmatched ==
    \A n \in pool :
        (n \in processed /\ ~detect_tv(n).ok /\ FirstYear(n) = 0) => NothingFiled

\* C10 as amended: a name with no episode match and no valid year is filed
\* as a movie without year, under what remains of the name once the tags are
\* removed; it is unmatched, with nothing created and no row written, only
\* when nothing remains.
C10_MovieWithoutYear ==
    \A n \in pool :
        (n \in processed /\ ~detect_tv(n).ok /\ FirstYear(n) = 0)
        => IF sanitize_for_matching(n.toks) = <<>> THEN NothingFiled
           ELSE FiledAsMovie(n, clean_title(sanitize_for_matching(n.toks)), 0)

\* C10, the case: a name without episode and without year was processed and
\* filed as a movie without year.
C10_Witness ==
    \E n \in pool :
        /\ n \in processed
        /\ ~detect_tv(n).ok
        /\ FirstYear(n) = 0
        /\ \E f \in files : f.path.dir = MovieDir(n.toks, 0) /\ f.src = n

(***************************************************************************)
(* Failures (SpecPlace): exceptions and I/O errors while a file is placed. *)
(***************************************************************************)
\* the call of process_file on n reaches process_tv or process_movie
Placing(n) ==
    /\ pc = "file"
    /\ cur = <<n>>
    /\ is_video_file(n) /\ ~is_temporary_file(n)
    /\ ~(SKIP_SAMPLES /\ IsSample(n))
    /\ PassesChecks(n)
    /\ Classify(n) # "unmatched"

\* C11 as claimed: an exception raised while one file is processed is caught
\* and the loop goes on with the other files: no file ever ends the program.
C11_FaultContained == pc # "crashed"

\* os.link, or the copy that replaces it, failed
LinkFailed(out) == out \in {"error", "copy_failed", "copy_failed_part_left"}

\* C12 as claimed: when the link of a classified file fails with an I/O error
\* (a link error that is not cross-device, or a failed copy), the path is
\* not marked as processed, so that the next scan attempts it again.
C12_FailureRetried ==
    [][\A n \in pool :
         (Placing(n) /\ pc' = "loop" /\ LinkFailed(outcome')) => n \notin processed']_vars

\* C13 as claimed: a row of processed_media is written only by a call that
\* created the destination file, by link or by copy; a call whose link was
\* skipped (the destination exists) or failed writes none.
C13_RecordOnlyWhenPlaced ==
    [][(~DRY_RUN /\ db' # db) => outcome' \in {"link", "copy"}]_vars

(***************************************************************************)
(* Readiness (Spec).                                                       *)
(***************************************************************************)
NothingPlaced == dirs' = dirs /\ files' = files /\ db' = db

TheFile == CHOOSE n \in pool : TRUE

\* the file is a video file, it is in the watch folder and its last
\* modification is a grace period old
Settled ==
    /\ is_video_file(TheFile) /\ ~is_temporary_file(TheFile)
    /\ watch[TheFile].present
    /\ watch[TheFile].age >= DOWNLOAD_GRACE_PERIOD

\* C15 as claimed: a video file that stays in the watch folder and is no
\* longer modified is eventually processed to a terminal outcome (placed,
\* skipped or unmatched): its path enters the processed set.
C15_EventuallyTerminal == (<>[]Settled) => <>(TheFile \in processed)

(***************************************************************************)
(* The copy fallback (SpecStartup).                                        *)
(***************************************************************************)
\* the destination path of a name that is filed
DestPath(n) ==
    LET tv == detect_tv(n)
        movie == detect_movie(n)
    IN  IF Classify(n) = "tv" THEN TvPath(tv.title, tv.season, tv.episode, n.ext)
        ELSE MoviePath(movie.title, movie.year, n.ext)

\* the row of processed_media for a name that is filed
AuditRow(n) ==
    LET tv == detect_tv(n)
        movie == detect_movie(n)
    IN  IF Classify(n) = "tv"
        THEN Row(n, tv.title, "TV", tv.season, tv.episode, 0, DestPath(n))
        ELSE Row(n, movie.title, "Movie", 0, 0, movie.year, DestPath(n))

\* os.link failed with EXDEV and the copy was tried
CrossDevice(out) == out \in {"copy", "copy_failed", "copy_failed_part_left"}

\* C16 as claimed: after a cross-device link failure, whether the copy
\* succeeds or fails, no temporary file of the destination remains.
C16_NoTempRemains ==
    [][\A n \in pool :
         (Placing(n) /\ pc' = "loop" /\ CrossDevice(outcome'))
         => ~PathExists(files', PartPath(DestPath(n)))]_vars

\* C16 as amended: after a cross-device link failure the source is copied to
\* the temporary name and renamed.  When that succeeds the destination is a
\* copy of the source, no temporary file remains and the row written (when
\* the database is reachable) is the row of the hardlink case.  When it fails there is no destination file, and
\* the temporary file is gone unless its removal failed too (that failure is
\* ignored): then it stays next to the missing destination.
C16_CopyFallback ==
    [][\A n \in pool :
         (Placing(n) /\ pc' = "loop") =>
            /\ outcome' = "copy" =>
                  /\ [path |-> DestPath(n), src |-> n, how |-> "copy"] \in files'
                  /\ ~PathExists(files', PartPath(DestPath(n)))
            /\ (outcome' \in {"link", "copy"} /\ db_ok) =>
                  db' = db (+) SetToBag({AuditRow(n)})
            /\ outcome' = "copy_failed" =>
                  /\ ~PathExists(files', DestPath(n))
                  /\ ~PathExists(files', PartPath(DestPath(n)))
            /\ outcome' = "copy_failed_part_left" =>
                  /\ ~PathExists(files', DestPath(n))
                  /\ PathExists(files', PartPath(DestPath(n)))]_vars

\* C16, the case: a file was placed by the copy fallback and its row written.
C16_Witness ==
    /\ pc = "loop"
    /\ outcome = "copy"
    /\ \E f \in files : f.how = "copy" /\ AuditRow(f.src) \in BagToSet(db)

(***************************************************************************)
(* Movies (SpecStartup).                                                   *)
(***************************************************************************)
IsMovie(n) == Classify(n) \in {"movie_tv_ignored", "movie_year", "movie_fallback"}

\* C17: a call of process_file that files its source as a movie deletes and
\* replaces no destination file, whatever the resolutions: every file of the
\* tree is still there afterwards, and when the destination path exists
\* already the tree is unchanged and the source is skipped as placed.
C17_MovieNeverReplaced ==
    [][\A n \in pool :
         (Placing(n) /\ IsMovie(n) /\ pc' # "file") =>
            /\ \A f \in files : ~f.path.part => f \in files'
            /\ (PathExists(files, DestPath(n)) /\ pc' = "loop") =>
                  files' = files /\ outcome' = "exists" /\ n \in processed']_vars

\* C17, the case: a movie source of another resolution was skipped, the
\* destination file placed from the first source is in place.
C17_Witness ==
    \E n \in pool :
        /\ pc = "loop"
        /\ outcome = "exists"
        /\ IsMovie(n)
        /\ n \in processed
        /\ \E f \in files :
              /\ f.path = DestPath(n)
              /\ f.src # n
              /\ get_resolution(f.src.toks) # get_resolution(n.toks)

(***************************************************************************)
(* Shutdown (SpecPlace).                                                   *)
(***************************************************************************)
\* C18 as claimed: the program never stops between the deletion of a
\* superseded episode file and the placement of its replacement: when it
\* stops while an episode is processed, a slot that held a file holds one.
C18_NoStopAfterDeletion ==
    [][\A n \in pool :
         (Placing(n) /\ Classify(n) = "tv" /\ pc' = "stopped" /\ Slot(files, n) # {})
         => Slot(files', n) # {}]_vars

(***************************************************************************)
(* Startup (SpecStartup): the watch folder may be missing, the database    *)
(* may be unreachable.                                                     *)
(***************************************************************************)
NothingProcessed == processed = {} /\ dirs = {} /\ files = {} /\ db = EmptyBag

\* C19 as claimed: when the watch folder is missing or the database cannot
\* be initialised, the program ends before any file is processed: no call of
\* process_file is made and nothing is placed.
C19_FatalStartup ==
    (~watch_dir \/ ~db_ok) => (pc # "file" /\ NothingProcessed)

\* what main() does guarantee at startup: a missing watch folder ends the
\* program before anything is scanned or processed; with the watch folder in
\* place the program never exits at startup; without the database no row is
\* written
StartupGuarantee ==
    /\ ~watch_dir => (pc \in {"start", "exited"} /\ NothingProcessed)
    /\ watch_dir => pc # "exited"
    /\ ~db_ok => db = EmptyBag

(***************************************************************************)
(* Terminal paths (Spec).                                                  *)
(***************************************************************************)
\* the step neither ends the run nor starts another one
SameRun == pc \notin {"stopped", "crashed", "exited"} /\ pc' \notin {"stopped", "crashed"}

\* C20: a path that entered the processed set (placed, skipped or unmatched)
\* stays in it for the rest of the run and is never handed to process_file
\* again, by no later scan and whatever happens to the file: its count of
\* attempts stands still, so it left the pending state once.
C20_TerminalOnce ==
    [][\A n \in pool :
         (n \in processed /\ SameRun) =>
            /\ n \in processed'
            /\ ~(pc' = "file" /\ cur' = <<n>>)
            /\ attempts'[n] = attempts[n]]_vars

\* C20, the case: a later scan of the same run reaches an unmatched file
\* that was processed once.
C20_Witness ==
    \E n \in pool :
        /\ pc = "loop"
        /\ video_files # <<>>
        /\ Head(video_files) = n
        /\ n \in processed
        /\ is_video_file(n) /\ ~is_temporary_file(n) /\ ~IsSample(n)
        /\ Classify(n) = "unmatched"
        /\ attempts[n] = 1
        /\ restarts = 0

(***************************************************************************)
(* Notifications (SpecStartup).                                            *)
(***************************************************************************)
\* C21: a notification that Twilio refuses changes nothing of the call: no
\* exception leaves process_file, the path is marked processed (so it is
\* never handled, and never notified, again), the row of processed_media is
\* written, and the tree, the table and the result of the link are those of
\* the same call with the notification sent.
C21_NotificationBestEffort ==
    [][\A n \in pool :
         (Placing(n) /\ pc' # "stopped" /\ notice' = "failed") =>
            /\ pc' = "loop"
            /\ n \in processed'
            /\ db_ok => AuditRow(n) \in BagToSet(db')
            /\ \E order \in Orders(Listed(n)), o \in Outcomes(files) :
                  LET r == process_file([dirs |-> dirs, files |-> files, db |-> db],
                                        n, order, o)
                  IN  /\ r.notice = "sent"
                      /\ r.ret
                      /\ r.dirs = dirs' /\ r.files = files' /\ r.db = db'
                      /\ r.outcome = outcome']_vars

\* C21, the case: a file was linked and logged, and its notification failed.
C21_Witness ==
    /\ pc = "loop"
    /\ notice = "failed"
    /\ outcome = "link"
    /\ \E n \in processed :
          /\ AuditRow(n) \in BagToSet(db)
          /\ \E f \in files : f.src = n /\ f.path = DestPath(n)

(***************************************************************************)
(* The year of a movie (SpecClassify).                                     *)
(***************************************************************************)
\* the first token of the name, tags removed, that reads 19xx or 20xx
YearIndex(n) == FirstIndex(sanitize_for_matching(n.toks), year_pattern)
YearValue(n) == ToInt(sanitize_for_matching(n.toks)[YearIndex(n)].d)
BeforeYear(n) == clean_title(SubSeq(sanitize_for_matching(n.toks), 1, YearIndex(n) - 1))
WholeName(n) == clean_title(sanitize_for_matching(n.toks))

\* a processed name without episode match whose first year token has text
\* before it
YearCase(n) ==
    /\ n \in processed
    /\ ~detect_tv(n).ok
    /\ YearIndex(n) > 0
    /\ BeforeYear(n) # <<>>

\* C22 as claimed: the year token y is the movie year, and the title is the
\* text before it, exactly when 1900 <= y <= current_year + 2; otherwise the
\* token is not used as the year.
C22_YearRangeTwoAhead ==
    \A n \in pool :
        YearCase(n) =>
            IF 1900 <= YearValue(n) /\ YearValue(n) <= CurrentYear + 2
            THEN FiledAsMovie(n, BeforeYear(n), YearValue(n))
            ELSE FiledAsMovie(n, WholeName(n), 0)

\* C22 as amended: the first 19xx or 20xx token y is the movie year, and the
\* title is the text before it, exactly when 1900 <= y <= current_year + 1;
\* otherwise the token is not used as the year, no later token is tried, and
\* the title is the whole name.
C22_YearRangeOneAhead ==
    \A n \in pool :
        YearCase(n) =>
            IF 1900 <= YearValue(n) /\ YearValue(n) <= CurrentYear + 1
            THEN FiledAsMovie(n, BeforeYear(n), YearValue(n))
            ELSE FiledAsMovie(n, WholeName(n), 0)

\* C22, the case: a name whose year is two years ahead was processed and
\* linked as a movie without year, the year left in its title.
C22_Witness ==
    \E n \in pool :
        /\ YearCase(n)
        /\ YearValue(n) = CurrentYear + 2
        /\ \E f \in files :
              f.src = n /\ f.how = "link" /\ f.path.dir = MovieDir(WholeName(n), 0)

(***************************************************************************)
(* Skipped episodes (SpecLibrary): the slot may hold files of several      *)
(* resolutions that were not placed by the program.                        *)
(***************************************************************************)
\* process_tv returned at "if not should_process": the call of process_file
\* on episode n returned and create_hardlink was not reached
SkipsEpisode(n) ==
    Placing(n) /\ Classify(n) = "tv" /\ pc' = "loop" /\ outcome' = "none"

\* C23 as claimed: when process_tv skips the incoming file because a file of
\* the slot has an equal or higher resolution, no file of the slot was
\* deleted: the files of the tree are unchanged, also with several files in
\* the slot.
C23_SkipIsNoOp ==
    [][\A n \in pool : SkipsEpisode(n) => files' = files]_vars

(***************************************************************************)
(* The hardlink (SpecStartup).  A file of the tree tells how it got its    *)
(* name: "link" by os.link(src, dst), "copy" by shutil.copy2 to the        *)
(* temporary name and os.replace.                                          *)
(***************************************************************************)
\* C24 as claimed: a destination file appears only by the rename of its
\* temporary sibling, the link included.
C24_TwoStepLink ==
    \A f \in files : (f.how # "other" /\ ~f.path.part) => f.how \in {"rename", "copy"}

\* C24 as amended: the hardlink is one step.  When os.link succeeds the
\* destination is linked under its final name at once; the temporary name is
\* not touched: whatever bears it was there before.  A temporary name is
\* written by the copy fallback only.
C24_DirectLink ==
    [][\A n \in pool :
         (Placing(n) /\ pc' = "loop") =>
            /\ outcome' = "link" =>
                  /\ [path |-> DestPath(n), src |-> n, how |-> "link"] \in files'
                  /\ \A f \in files' : f.path.part => f \in files
            /\ (\E f \in files' \ files : f.path.part) =>
                  outcome' = "copy_failed_part_left"]_vars

\* C24, the case: a file was hardlinked under its final name and no temporary
\* file is in the tree.
C24_Witness ==
    /\ pc = "loop"
    /\ outcome = "link"
    /\ \E n \in processed : [path |-> DestPath(n), src |-> n, how |-> "link"] \in files
    /\ \A f \in files : ~f.path.part

TvCallReturns(n) == Placing(n) /\ Classify(n) = "tv" /\ pc' = "loop"

\* no os.remove of the call failed: it skipped, or no file of the slot is left
DeletionsSucceeded(n) == outcome' = "none" \/ Slot(files, n) \cap files' = {}

\* at most one file per slot, as long as the deletions succeed
OneFilePerSlot ==
    [][\A n \in pool :
         (/\ TvCallReturns(n)
          /\ Cardinality(Slot(files, n)) <= 1
          /\ DeletionsSucceeded(n))
         => Cardinality(Slot(files', n)) <= 1]_vars

\* C26 as claimed: from an empty tree and with every deletion succeeding, a
\* call of process_tv leaves at most one file in the slot and never leaves
\* empty a slot that held a file.
C26_OnePerSlotNeverEmpty ==
    [][\A n \in pool :
         TvCallReturns(n) =>
            /\ (Cardinality(Slot(files, n)) <= 1 /\ DeletionsSucceeded(n))
                  => Cardinality(Slot(files', n)) <= 1
            /\ Slot(files, n) # {} => Slot(files', n) # {}]_vars

(***************************************************************************)
(* Dry run (SpecLibrary): the library holds files when the program starts. *)
(***************************************************************************)
\* C27: in dry-run mode no step of the program changes the media tree: no
\* directory is created, no file is linked or copied and none is deleted,
\* on the upgrade path either.
C27_DryRunChangesNothing ==
    [][DRY_RUN => (dirs' = dirs /\ files' = files)]_vars

\* C27, the case: in dry-run mode an episode better than the file of its
\* slot was processed up to the link, and that file is still there.
C27_Witness ==
    /\ DRY_RUN
    /\ pc = "loop"
    /\ outcome = "dry_run"
    /\ \E n \in processed :
          /\ Classify(n) = "tv"
          /\ Slot(files, n) # {}
          /\ \A f \in Slot(files, n) :
                get_resolution(DestNameToks(f.path)) < get_resolution(n.toks)
====
